---- MODULE Spec2Model ----
(***************************************************************************)
(* Earley chart construction and recognition, earley.py.                   *)
(*                                                                         *)
(* An item is the 4-tuple <<key, rule, dot, index>> of the source: key a   *)
(* symbol, rule a sequence of symbols, dot and index 0-based integers as   *)
(* in the source (rule[dot] of the source is rule[dot + 1] here, and       *)
(* history[index] of the source is history[index + 1]).  An OrderedSet is  *)
(* a sequence without repetitions, in insertion order.  A deque is a       *)
(* sequence: popleft is Head/Tail, append and extend add on the right.     *)
(***************************************************************************)
EXTENDS Integers, Sequences, FiniteSets, TLC

\* Longest token sequence tried with the grammar of small_test.
MaxLenSmall == 5

\* Longest token sequence tried with the other grammars.
MaxLen == 3

\* The end-of-input sentinel appended to the input (None in the source).
None == "None"

Range(s) == {s[k] : k \in 1..Len(s)}

BoundedSeq(S, n) == UNION {[1..m -> S] : m \in 0..n}

(***************************************************************************)
(* Grammars.  A grammar is a function from its keys (the nonterminals) to  *)
(* the sequence of their productions.                                      *)
(***************************************************************************)

\* The grammar of small_test.
SmallGrammar ==
    [k \in {"P", "S", "M", "T"} |->
        CASE k = "P" -> << <<"S">> >>
          [] k = "S" -> << <<"S", "+", "M">>, <<"M">> >>
          [] k = "M" -> << <<"M", "*", "T">>, <<"T">> >>
          [] k = "T" -> << <<"1">>, <<"2">>, <<"3">>, <<"4">> >>]

\* Two consecutive nonterminals in one production: S -> A B; A -> a; B -> b.
SeqGrammar ==
    [k \in {"S", "A", "B"} |->
        CASE k = "S" -> << <<"A", "B">> >>
          [] k = "A" -> << <<"a">> >>
          [] k = "B" -> << <<"b">> >>]

\* Right recursion: S -> a S | a.
RightRecGrammar ==
    [k \in {"S"} |-> << <<"a", "S">>, <<"a">> >>]

\* Two productions deriving the same span: S -> A | B; A -> a; B -> a.
AmbiguousGrammar ==
    [k \in {"S", "A", "B"} |->
        CASE k = "S" -> << <<"A">>, <<"B">> >>
          [] k = "A" -> << <<"a">> >>
          [] k = "B" -> << <<"a">> >>]

\* Left recursion with a binary operator only: E -> E - a | a.
LeftRecGrammar ==
    [k \in {"E"} |-> << <<"E", "-", "a">>, <<"a">> >>]

\* Ambiguity through a doubled nonterminal: S -> S S | a.
DoubledGrammar ==
    [k \in {"S"} |-> << <<"S", "S">>, <<"a">> >>]

\* A key whose list of productions is empty: S -> A a | a; A has none.
EmptyListGrammar ==
    [k \in {"S", "A"} |->
        CASE k = "S" -> << <<"A", "a">>, <<"a">> >>
          [] k = "A" -> <<>>]

\* An empty production: S -> A a; A -> (empty) | b.
NullableGrammar ==
    [k \in {"S", "A"} |->
        CASE k = "S" -> << <<"A", "a">> >>
          [] k = "A" -> << <<>>, <<"b">> >>]

\* The grammar of larger_test.
LargerGrammar ==
    [k \in {"START", "Sum", "Product", "Factor", "Number", "Digit"} |->
        CASE k = "START" -> << <<"Sum">> >>
          [] k = "Sum" -> << <<"Product">>,
                             <<"Sum", "+", "Product">>,
                             <<"Sum", "-", "Product">> >>
          [] k = "Product" -> << <<"Factor">>,
                                 <<"Product", "*", "Factor">>,
                                 <<"Product", "/", "Factor">> >>
          [] k = "Factor" -> << <<"(", "Sum", ")">>, <<"Number">> >>
          [] k = "Number" -> << <<"Digit", "Number">>, <<"Digit">> >>
          [] k = "Digit" -> << <<"0">>, <<"1">>, <<"2">>, <<"3">>, <<"4">>,
                               <<"5">>, <<"6">>, <<"7">>, <<"8">>, <<"9">> >>]

\* test_case of small_test, as list(test_case).
SmallTestCase == <<"2", "+", "3", "*", "4">>

\* test_case of larger_test, as list(test_case).
LargerTestCase == <<"1", "+", "(", "2", "*", "3", "-", "4", ")">>

\* The calls tried: a grammar, the start symbols passed with it ("Q" is a
\* key of none of the grammars) and the token sequences.
Cases ==
    { [grammar |-> SmallGrammar, starts |-> {"P", "Q"},
       inputs |-> BoundedSeq({"2", "3", "+", "*"}, MaxLenSmall)
                  \cup {SmallTestCase}],
      [grammar |-> SeqGrammar, starts |-> {"S", "Q"},
       inputs |-> BoundedSeq({"a", "b"}, MaxLen)],
      [grammar |-> RightRecGrammar, starts |-> {"S", "Q"},
       inputs |-> BoundedSeq({"a", "b"}, MaxLen)],
      [grammar |-> AmbiguousGrammar, starts |-> {"S", "A", "Q"},
       inputs |-> BoundedSeq({"a", "b"}, MaxLen)],
      [grammar |-> LeftRecGrammar, starts |-> {"E", "Q"},
       inputs |-> BoundedSeq({"a", "-"}, MaxLen)],
      [grammar |-> DoubledGrammar, starts |-> {"S"},
       inputs |-> BoundedSeq({"a"}, MaxLen)],
      [grammar |-> EmptyListGrammar, starts |-> {"S"},
       inputs |-> BoundedSeq({"a", "b"}, MaxLen)],
      [grammar |-> NullableGrammar, starts |-> {"S"},
       inputs |-> BoundedSeq({"a", "b"}, MaxLen)],
      [grammar |-> LargerGrammar, starts |-> {"START"},
       inputs |-> BoundedSeq({"1", "2", "+", "(", ")"}, MaxLen)
                  \cup {LargerTestCase}] }

(***************************************************************************)
(* The helpers of the source.                                              *)
(***************************************************************************)

\* A list in place of the OrderedSet: add appends whatever it is given.
OrderedSetAppend(set, item) == Append(set, item)

\* OrderedSet.add: append unless already a member.
OrderedSetAdd(set, item) ==
    IF item \in Range(set) THEN set ELSE Append(set, item)

\* predictor that gives its items the origin 0 whatever the position.
predictorOriginZero(key, gr, seen, n) ==
    LET all == [k \in 1..Len(gr[key]) |-> <<key, gr[key][k], 0, 0>>]
    IN  SelectSeq(all, LAMBDA it : it \notin Range(seen))

\* predictor(key, grammar, seen, i): the productions of key as items with
\* dot 0 and origin i, in grammar order, those already in seen left out.
predictor(key, gr, seen, n) ==
    LET all == [k \in 1..Len(gr[key]) |-> <<key, gr[key][k], 0, n>>]
    IN  SelectSeq(all, LAMBDA it : it \notin Range(seen))

\* The evaluation of pr[pd] in completer raises IndexError for an item of
\* search_set that passes `pd <= len(pr)` with pd not below len(pr).
completerRaises(search_set) ==
    \E k \in 1..Len(search_set) :
        /\ search_set[k][3] <= Len(search_set[k][2])
        /\ ~(search_set[k][3] < Len(search_set[k][2]))

\* completer that returns at its first hit instead of collecting them all.
completerFirstOnly(key, search_set, seen) ==
    IF completerRaises(search_set)
    THEN [raised |-> TRUE, value |-> <<>>]
    ELSE LET adv(it) == <<it[1], it[2], it[3] + 1, it[4]>>
             hit == SelectSeq(search_set,
                       LAMBDA it : /\ it[3] <= Len(it[2])
                                   /\ key = it[2][it[3] + 1]
                                   /\ adv(it) \notin Range(seen))
         IN  [raised |-> FALSE,
              value |-> IF hit = <<>> THEN <<>> ELSE <<adv(hit[1])>>]

\* completer(key, search_set, seen): the items of search_set with key at
\* the dot, advanced by one, those already in seen left out; or IndexError.
completer(key, search_set, seen) ==
    IF completerRaises(search_set)
    THEN [raised |-> TRUE, value |-> <<>>]
    ELSE LET adv(it) == <<it[1], it[2], it[3] + 1, it[4]>>
             hit == SelectSeq(search_set,
                       LAMBDA it : /\ it[3] <= Len(it[2])
                                   /\ key = it[2][it[3] + 1]
                                   /\ adv(it) \notin Range(seen))
         IN  [raised |-> FALSE, value |-> [k \in 1..Len(hit) |-> adv(hit[k])]]

\* scanner that moves the dot by two.
scannerAdvancesTwo(item, token, Q) ==
    LET scanned == <<item[1], item[2], item[3] + 2, item[4]>>
    IN  IF item[2][item[3] + 1] = token /\ scanned \notin Range(Q)
        THEN Append(Q, scanned)
        ELSE Q

\* scanner that does not compare the symbol at the dot with the token.
scannerAnyToken(item, token, Q) ==
    LET scanned == <<item[1], item[2], item[3] + 1, item[4]>>
    IN  IF scanned \notin Range(Q) THEN Append(Q, scanned) ELSE Q

\* scanner(item, token, Q): Q with the advanced item appended when the
\* symbol at the dot is the token and the advanced item is not in Q.
scanner(item, token, Q) ==
    LET scanned == <<item[1], item[2], item[3] + 1, item[4]>>
    IN  IF item[2][item[3] + 1] = token /\ scanned \notin Range(Q)
        THEN Append(Q, scanned)
        ELSE Q

\* recognizer with `dot > len(rule)` in place of `dot >= len(rule)`.
recognizerStrict(st, last_page) ==
    \E p \in 1..Len(last_page) :
        \E k \in 1..Len(last_page[p]) :
            /\ last_page[p][k][4] = 0
            /\ last_page[p][k][1] = st
            /\ last_page[p][k][3] > Len(last_page[p][k][2])

\* recognizer(start, last_page) when last_page is a sequence of pages, the
\* way small_test and larger_test call it: `for item in last_page` ranges
\* over the pages and `for key, rule, dot, index in item` over their items.
recognizer(st, last_page) ==
    \E p \in 1..Len(last_page) :
        \E k \in 1..Len(last_page[p]) :
            LET key == last_page[p][k][1]
                rule == last_page[p][k][2]
                dot == last_page[p][k][3]
                index == last_page[p][k][4]
            IN  index = 0 /\ key = st /\ dot >= Len(rule)

\* recognizer(start, last_page) when last_page is one StateSet: `for item in
\* last_page` ranges over the items and `for key, rule, dot, index in item`
\* over the four fields of an item, the first of which is a symbol, which
\* does not unpack into four names (no symbol here has four characters):
\* ValueError, unless the page is empty and any() of nothing is False.
recognizerOnPage(st, page) ==
    IF page = <<>> THEN "False" ELSE "ValueError"

(***************************************************************************)
(* The state of one call of chart(grammar, start, inp) followed by one     *)
(* call of recognizer.                                                     *)
(***************************************************************************)
VARIABLES
    grammar,    \* the grammar argument
    start,      \* the start argument
    inp,        \* the inp argument
    stream,     \* inp + [None] once the for statement has evaluated it
    history,    \* the chart: a sequence of OrderedSets
    activeQ,
    nextQ,
    i,          \* the index of the for loop
    pc,         \* "call", "enter", "loop", "done", "recognized", "error"
    err,        \* the exception raised, or "none"
    result,     \* what recognizer returned: "none", "True", "False", "ValueError"
    arg,        \* what recognizer was applied to: "none", "chart", "last_page"
    wasSeen     \* the item popped last was already in the current StateSet

vars == <<grammar, start, inp, stream, history, activeQ, nextQ, i, pc, err,
          result, arg, wasSeen>>

Init ==
    /\ \E c \in Cases :
          /\ grammar = c.grammar
          /\ start \in c.starts
          /\ inp \in c.inputs
    /\ stream = <<>>
    /\ history = <<>>
    /\ activeQ = <<>>
    /\ nextQ = <<>>
    /\ i = 0
    /\ pc = "call"
    /\ err = "none"
    /\ result = "none"
    /\ arg = "none"
    /\ wasSeen = FALSE

\* Initialize with a lookup that defaults to no productions (grammar.get)
\* when start is not a key.
InitializeDefaultsToEmpty ==
    /\ pc = "call"
    /\ nextQ' = IF start \in DOMAIN grammar
                THEN [k \in 1..Len(grammar[start]) |->
                         <<start, grammar[start][k], 0, 0>>]
                ELSE <<>>
    /\ pc' = "enter"
    /\ UNCHANGED <<grammar, start, inp, stream, history, activeQ, i, err,
                   result, arg, wasSeen>>

\* Lines 34-36: the three initialisations; grammar[start] raises KeyError
\* when start is not a key.
Initialize ==
    /\ pc = "call"
    /\ IF start \in DOMAIN grammar
       THEN /\ nextQ' = [k \in 1..Len(grammar[start]) |->
                            <<start, grammar[start][k], 0, 0>>]
            /\ pc' = "enter"
            /\ err' = err
       ELSE /\ nextQ' = nextQ
            /\ pc' = "error"
            /\ err' = "KeyError"
    /\ UNCHANGED <<grammar, start, inp, stream, history, activeQ, i, result,
                   arg, wasSeen>>

\* Line 39: the for statement evaluates enumerate(inp + [None]) once.
EnterLoop ==
    /\ pc = "enter"
    /\ stream' = Append(inp, None)
    /\ pc' = "loop"
    /\ UNCHANGED <<grammar, start, inp, history, activeQ, nextQ, i, err,
                   result, arg, wasSeen>>

\* Lines 39-41: the next iteration of the for loop, taken when the while
\* loop of the previous one has found activeQ empty.
NextPosition ==
    /\ pc = "loop"
    /\ activeQ = <<>>
    /\ Len(history) < Len(stream)
    /\ i' = Len(history)
    /\ history' = Append(history, <<>>)
    /\ activeQ' = nextQ
    /\ nextQ' = activeQ
    /\ UNCHANGED <<grammar, start, inp, stream, pc, err, result, arg, wasSeen>>

\* Lines 44-45: pop the item, add it to the current StateSet.
Popped == Head(activeQ)
\* The add done on the StateSet of the item's origin, history[index].
AddedAtOrigin == [history EXCEPT ![Popped[4] + 1] = OrderedSetAdd(@, Popped)]
Added == [history EXCEPT ![Len(history)] = OrderedSetAdd(@, Popped)]

\* PredictStep with the two queues mixed up: the predictions go to nextQ.
PredictStepIntoNextQ ==
    /\ pc = "loop"
    /\ activeQ # <<>>
    /\ Popped[3] < Len(Popped[2])
    /\ Popped[2][Popped[3] + 1] \in DOMAIN grammar
    /\ wasSeen' = (Popped \in Range(history[Len(history)]))
    /\ history' = Added
    /\ activeQ' = Tail(activeQ)
    /\ nextQ' = nextQ \o
                predictor(Popped[2][Popped[3] + 1], grammar, Added[i + 1], i)
    /\ UNCHANGED <<grammar, start, inp, stream, i, pc, err, result, arg>>

\* Lines 43-52: an item with a nonterminal at the dot.
PredictStep ==
    /\ pc = "loop"
    /\ activeQ # <<>>
    /\ Popped[3] < Len(Popped[2])
    /\ Popped[2][Popped[3] + 1] \in DOMAIN grammar
    /\ wasSeen' = (Popped \in Range(history[Len(history)]))
    /\ history' = Added
    /\ activeQ' = Tail(activeQ) \o
                  predictor(Popped[2][Popped[3] + 1], grammar, Added[i + 1], i)
    /\ UNCHANGED <<grammar, start, inp, stream, nextQ, i, pc, err, result, arg>>

\* Lines 43-48, 53-54: an item with a terminal at the dot.
ScanStep ==
    /\ pc = "loop"
    /\ activeQ # <<>>
    /\ Popped[3] < Len(Popped[2])
    /\ Popped[2][Popped[3] + 1] \notin DOMAIN grammar
    /\ wasSeen' = (Popped \in Range(history[Len(history)]))
    /\ history' = Added
    /\ activeQ' = Tail(activeQ)
    /\ nextQ' = scanner(Popped, stream[i + 1], nextQ)
    /\ UNCHANGED <<grammar, start, inp, stream, i, pc, err, result, arg>>

\* Lines 43-48, 55-58: a complete item; completer may raise IndexError.
CompleteStep ==
    /\ pc = "loop"
    /\ activeQ # <<>>
    /\ ~(Popped[3] < Len(Popped[2]))
    /\ wasSeen' = (Popped \in Range(history[Len(history)]))
    /\ history' = Added
    /\ LET c == completer(Popped[1], Added[Popped[4] + 1], Added[i + 1])
       IN  IF c.raised
           THEN /\ activeQ' = Tail(activeQ)
                /\ pc' = "error"
                /\ err' = "IndexError"
           ELSE /\ activeQ' = Tail(activeQ) \o c.value
                /\ pc' = pc
                /\ err' = err
    /\ UNCHANGED <<grammar, start, inp, stream, nextQ, i, result, arg>>

\* Line 60: the for loop is exhausted, chart returns history.
Return ==
    /\ pc = "loop"
    /\ activeQ = <<>>
    /\ Len(history) = Len(stream)
    /\ pc' = "done"
    /\ UNCHANGED <<grammar, start, inp, stream, history, activeQ, nextQ, i,
                   err, result, arg, wasSeen>>

\* Lines 135-136 and 154-155: recognizer applied to the whole chart.
RecognizeChart ==
    /\ pc = "done"
    /\ result' = IF recognizer(start, history) THEN "True" ELSE "False"
    /\ arg' = "chart"
    /\ pc' = "recognized"
    /\ UNCHANGED <<grammar, start, inp, stream, history, activeQ, nextQ, i,
                   err, wasSeen>>

\* Lines 73-76: recognizer applied to the last StateSet of the chart.
RecognizeLastPage ==
    /\ pc = "done"
    /\ result' = recognizerOnPage(start, history[Len(history)])
    /\ arg' = "last_page"
    /\ pc' = "recognized"
    /\ UNCHANGED <<grammar, start, inp, stream, history, activeQ, nextQ, i,
                   err, wasSeen>>

Next ==
    \/ Initialize
    \/ EnterLoop
    \/ NextPosition
    \/ PredictStep
    \/ ScanStep
    \/ CompleteStep
    \/ Return
    \/ RecognizeChart
    \/ RecognizeLastPage

Spec == Init /\ [][Next]_vars

\* The interpreter runs the call to its end: a step that can be taken is taken.
FairSpec == Spec /\ WF_vars(Next)

(***************************************************************************)
(* What the claims speak of.                                               *)
(***************************************************************************)

\* The advanced copy of an item.
Advance(it) == <<it[1], it[2], it[3] + 1, it[4]>>

\* The symbol at the dot of an incomplete item.
AtDot(it) == it[2][it[3] + 1]

Finished == pc \in {"done", "recognized"}

\* Derivation, independent of the chart.  A table T maps <<A, a, b>> to
\* TRUE when the nonterminal A is known to derive the tokens w[a+1..b].
\* MatchFrom says that the symbols k.. of production p derive w[a+1..b],
\* the nonterminals among them deriving what T says they derive.
RECURSIVE MatchFrom(_, _, _, _, _, _, _)
MatchFrom(gr, w, T, p, k, a, b) ==
    IF k > Len(p) THEN a = b
    ELSE IF p[k] \in DOMAIN gr
         THEN \E m \in a..b : /\ T[<<p[k], a, m>>]
                              /\ MatchFrom(gr, w, T, p, k + 1, m, b)
         ELSE /\ a < b
              /\ w[a + 1] = p[k]
              /\ MatchFrom(gr, w, T, p, k + 1, a + 1, b)

Triples(gr, w) == (DOMAIN gr) \X (0..Len(w)) \X (0..Len(w))

\* One more round of derivations added to T.
DeriveStep(gr, w, T) ==
    [t \in Triples(gr, w) |->
        \/ T[t]
        \/ /\ t[2] <= t[3]
           /\ \E n \in 1..Len(gr[t[1]]) :
                  MatchFrom(gr, w, T, gr[t[1]][n], 1, t[2], t[3])]

\* The least table closed under DeriveStep that contains T.
RECURSIVE Derivable(_, _, _)
Derivable(gr, w, T) ==
    LET U == DeriveStep(gr, w, T)
    IN  IF U = T THEN T ELSE Derivable(gr, w, U)

\* w is a sentence of gr from the symbol st.
IsSentence(gr, st, w) ==
    Derivable(gr, w, [t \in Triples(gr, w) |-> FALSE])[<<st, 0, Len(w)>>]

\* The start symbol is a key, every key has a production, none is empty.
WellFormed(gr, st) ==
    /\ st \in DOMAIN gr
    /\ \A k \in DOMAIN gr :
          /\ Len(gr[k]) >= 1
          /\ \A n \in 1..Len(gr[k]) : Len(gr[k][n]) >= 1

\* A page holds a completed item of st that spans the input from 0.
HasCompleteStart(st, page) ==
    \E it \in Range(page) : it[4] = 0 /\ it[1] = st /\ it[3] = Len(it[2])

NoDuplicates(s) == \A a, b \in 1..Len(s) : s[a] = s[b] => a = b

(***************************************************************************)
(* The claims.                                                             *)
(***************************************************************************)

\* C1: with the grammar of small_test and start P, the build of a sentence
\* of the grammar raises nothing and recognizer, applied to the result as
\* small_test applies it, returns True.
C1_SentencesRecognized ==
    (/\ pc = "error" \/ arg = "chart"
     /\ grammar = SmallGrammar
     /\ start = "P"
     /\ IsSentence(grammar, start, inp))
    => (pc # "error" /\ result = "True")

C1_Witness ==
    /\ grammar = SmallGrammar
    /\ start = "P"
    /\ inp = SmallTestCase
    /\ arg = "chart"
    /\ result = "True"

\* C2: with the grammar of small_test and start P, recognizer applied as
\* small_test applies it returns False for every token sequence that is not
\* a sentence of the grammar.
C2_NonSentencesRejected ==
    (/\ arg = "chart"
     /\ grammar = SmallGrammar
     /\ start = "P"
     /\ ~IsSentence(grammar, start, inp))
    => result = "False"

\* C3: recognizer applied to the final StateSet returns True when that set
\* holds a completed start item of origin 0 and False when it does not,
\* whatever the earlier StateSets hold.
C3_RecognizerReadsFinalSet ==
    arg = "last_page"
    => result = IF HasCompleteStart(start, history[Len(history)])
                THEN "True" ELSE "False"

\* C4: for a grammar whose start symbol is a key, whose keys all have a
\* production and whose productions are all non-empty, no step of the
\* build raises an error.
C4_NoErrorOnWellFormed ==
    WellFormed(grammar, start) => pc # "error"

\* C5: the returned chart is closed under Predict (1), Complete (2) and
\* Scan (3).
C5_ClosureComplete ==
    Finished =>
      \A n \in 1..Len(history) : \A it \in Range(history[n]) :
        /\ (it[3] < Len(it[2]) /\ AtDot(it) \in DOMAIN grammar)
           => \A k \in 1..Len(grammar[AtDot(it)]) :
                 <<AtDot(it), grammar[AtDot(it)][k], 0, n - 1>>
                     \in Range(history[n])
        /\ (it[3] = Len(it[2]))
           => \A w \in Range(history[it[4] + 1]) :
                 (w[3] < Len(w[2]) /\ AtDot(w) = it[1])
                 => Advance(w) \in Range(history[n])
        /\ (/\ n <= Len(inp)
            /\ it[3] < Len(it[2])
            /\ AtDot(it) \notin DOMAIN grammar
            /\ AtDot(it) = inp[n])
           => Advance(it) \in Range(history[n + 1])

\* A returned chart in which a completion at a later position has advanced
\* an item waiting in an earlier StateSet other than the first.
C5_Witness ==
    /\ pc = "done"
    /\ \E n \in 1..Len(history) : \E it \in Range(history[n]) :
          /\ it[3] = Len(it[2])
          /\ it[4] >= 1
          /\ \E w \in Range(history[it[4] + 1]) :
                w[3] < Len(w[2]) /\ AtDot(w) = it[1]

\* C6: whenever the start symbol is a key, the build reaches the point
\* where the queue of every position has been drained and all
\* Len(inp) + 1 positions are done.
C6_BuildFinishes ==
    (start \in DOMAIN grammar)
    => <>(pc = "done" /\ activeQ = <<>> /\ Len(history) = Len(inp) + 1)

\* C7 as stated: a start symbol that is not a key makes the call fail with
\* UnknownStartSymbolError, no StateSet created and the input not read.
C7_UnknownStartSymbolError ==
    (start \notin DOMAIN grammar /\ pc # "call")
    => /\ pc = "error"
       /\ err = "UnknownStartSymbolError"
       /\ history = <<>>
       /\ stream = <<>>

\* C7 amended: a start symbol that is not a key makes the call fail with
\* KeyError, no StateSet created and the input not read.
C7_KeyErrorBeforeInput ==
    (start \notin DOMAIN grammar /\ pc # "call")
    => /\ pc = "error"
       /\ err = "KeyError"
       /\ history = <<>>
       /\ stream = <<>>

C7_Witness ==
    /\ start \notin DOMAIN grammar
    /\ inp # <<>>
    /\ pc = "error"
    /\ err = "KeyError"

\* C8: no StateSet ever holds the same item twice.
C8_Dedup ==
    \A n \in 1..Len(history) : NoDuplicates(history[n])

\* An item has been popped that was in the current StateSet already.
C8_Witness ==
    /\ wasSeen
    /\ pc = "loop"
    /\ Len(history[Len(history)]) >= 2

\* C9: the returned chart has Len(inp) + 1 StateSets, and nothing is
\* queued for a position after the sentinel's.
C9_ChartLength ==
    /\ Finished => Len(history) = Len(inp) + 1
    /\ (pc \in {"loop", "done", "recognized"} /\ Len(history) = Len(inp) + 1)
       => nextQ = <<>>

\* A returned chart for a non-empty input whose last StateSet holds an
\* item with a terminal at the dot, which Scan has tried on the sentinel.
C9_Witness ==
    /\ pc = "done"
    /\ Len(inp) >= 1
    /\ \E it \in Range(history[Len(history)]) :
          it[3] < Len(it[2]) /\ AtDot(it) \notin DOMAIN grammar

\* C10: once a position is open, every item queued for the next one is the
\* advanced copy of an item of the current StateSet whose symbol at the
\* dot is a terminal equal to the current token.
C10_ScanMonotone ==
    Len(history) >= 1 =>
      \A it \in Range(nextQ) :
        /\ it[3] >= 1
        /\ i + 1 <= Len(inp)
        /\ LET pre == <<it[1], it[2], it[3] - 1, it[4]>>
           IN  /\ pre \in Range(history[i + 1])
               /\ pre[3] < Len(pre[2])
               /\ AtDot(pre) \notin DOMAIN grammar
               /\ AtDot(pre) = inp[i + 1]

\* Scan has queued an item at a position after the first.
C10_Witness ==
    /\ pc = "loop"
    /\ i >= 1
    /\ nextQ # <<>>

\* No production of the grammar is empty.
NoEmptyProductions(gr) ==
    \A k \in DOMAIN gr : \A n \in 1..Len(gr[k]) : Len(gr[k][n]) >= 1

\* The production p of the start symbol derives the whole of w.
ProductionDerives(gr, w, p) ==
    MatchFrom(gr, w, Derivable(gr, w, [t \in Triples(gr, w) |-> FALSE]),
              p, 1, 0, Len(w))

\* The items of every StateSet and of both queues.
AllItems ==
    UNION {Range(history[n]) : n \in 1..Len(history)}
        \cup Range(activeQ) \cup Range(nextQ)

\* C11: for the grammars S -> A | B; A -> a; B -> a and S -> S S | a with
\* start S, the build raises nothing and the final StateSet of the returned
\* chart holds the completed item of every production of S that derives
\* the whole input, each as an entry of its own.
C11_AmbiguityRetained ==
    (/\ grammar \in {AmbiguousGrammar, DoubledGrammar}
     /\ start = "S"
     /\ pc = "error" \/ Finished)
    => /\ pc # "error"
       /\ \A k \in 1..Len(grammar[start]) :
             ProductionDerives(grammar, inp, grammar[start][k])
             => <<start, grammar[start][k], Len(grammar[start][k]), 0>>
                    \in Range(history[Len(history)])

\* C12: with the grammar of larger_test and start START, the build of a
\* sentence of the grammar raises nothing and recognizer, applied to the
\* result as larger_test applies it, returns True.
C12_LargerSentencesRecognized ==
    (/\ pc = "error" \/ arg = "chart"
     /\ grammar = LargerGrammar
     /\ start = "START"
     /\ IsSentence(grammar, start, inp))
    => (pc # "error" /\ result = "True")

\* C13: every item of a StateSet, of the active queue and of the next
\* queue has its dot between 0 and the length of its production.
C13_DotInRange ==
    \A it \in AllItems : 0 <= it[3] /\ it[3] <= Len(it[2])

\* Scan has queued an item with the dot at the end of its production, and
\* Complete has put an item advanced over a nonterminal to the end of its
\* production into the current StateSet.
C13_Witness ==
    /\ pc = "loop"
    /\ \E it \in Range(nextQ) : it[3] = Len(it[2])
    /\ \E it \in Range(history[Len(history)]) :
          /\ it[3] = Len(it[2])
          /\ it[3] >= 1
          /\ it[2][it[3]] \in DOMAIN grammar

\* C14: no step changes a StateSet other than the last one of the chart,
\* and no step removes a StateSet.
C14_ClosedSetsFrozen ==
    [][/\ Len(history') >= Len(history)
       /\ \A n \in 1..(Len(history) - 1) : history'[n] = history[n]]_vars

\* Complete at position i >= 2 has advanced an item it read in the
\* StateSet of an earlier position other than the first.
C14_Witness ==
    /\ pc = "loop"
    /\ i >= 2
    /\ \E it \in Range(history[i + 1]) :
          /\ it[3] = Len(it[2])
          /\ 1 <= it[4]
          /\ it[4] < i
          /\ \E w \in Range(history[it[4] + 1]) :
                /\ w[3] < Len(w[2])
                /\ AtDot(w) = it[1]
                /\ Advance(w) \in Range(history[i + 1])

\* C16: once Predict has looked up a key whose list of productions is
\* empty, the build has failed with MalformedGrammarError.
C16_EmptyListSurfaces ==
    (\E n \in 1..Len(history) : \E it \in Range(history[n]) :
        /\ it[3] < Len(it[2])
        /\ AtDot(it) \in DOMAIN grammar
        /\ grammar[AtDot(it)] = <<>>)
    => (pc = "error" /\ err = "MalformedGrammarError")

\* C17: once the item of an empty production has been popped and Complete
\* has run for it, the build is not in an error state, and the chart it
\* returns has Len(inp) + 1 StateSets.
C17_EmptyProductionNoError ==
    (\E n \in 1..Len(history) : \E it \in Range(history[n]) : it[2] = <<>>)
    => /\ pc # "error"
       /\ Finished => Len(history) = Len(inp) + 1

\* C18: in StateSet i every item has origin <= i, every item with dot 0
\* has origin i and, when the grammar has no empty production, every
\* complete item has origin < i; the origin of every item is the index of
\* a StateSet of the chart.
C18_OriginBounds ==
    \A n \in 1..Len(history) : \A it \in Range(history[n]) :
        /\ it[4] <= n - 1
        /\ it[4] + 1 \in 1..Len(history)
        /\ (it[3] = 0) => it[4] = n - 1
        /\ (NoEmptyProductions(grammar) /\ it[3] = Len(it[2]))
           => it[4] < n - 1

\* At a position i >= 2 the current StateSet holds a complete item of an
\* origin between 1 and i - 1 and a predicted item of origin i.
C18_Witness ==
    /\ pc = "loop"
    /\ i >= 2
    /\ \E it \in Range(history[i + 1]) :
          it[3] = Len(it[2]) /\ 1 <= it[4] /\ it[4] < i
    /\ \E it \in Range(history[i + 1]) : it[3] = 0 /\ it[4] = i

\* The worklist that expands an item only the first time it is inserted:
\* an item popped that is in the current StateSet already is dropped, any
\* other is inserted and expanded by the same predictor, scanner and
\* completer.  WorklistDrain drains the queue aQ of position n.
RECURSIVE WorklistDrain(_, _, _, _, _, _)
WorklistDrain(gr, hist, aQ, nQ, n, tok) ==
    IF aQ = <<>>
    THEN [raised |-> FALSE, history |-> hist, nextQ |-> nQ]
    ELSE LET item == Head(aQ)
             h2 == [hist EXCEPT ![n + 1] = Append(@, item)]
         IN  IF item \in Range(hist[n + 1])
             THEN WorklistDrain(gr, hist, Tail(aQ), nQ, n, tok)
             ELSE IF item[3] < Len(item[2])
             THEN IF AtDot(item) \in DOMAIN gr
                  THEN WorklistDrain(gr, h2,
                           Tail(aQ) \o predictor(AtDot(item), gr, h2[n + 1], n),
                           nQ, n, tok)
                  ELSE WorklistDrain(gr, h2, Tail(aQ),
                           scanner(item, tok, nQ), n, tok)
             ELSE LET c == completer(item[1], h2[item[4] + 1], h2[n + 1])
                  IN  IF c.raised
                      THEN [raised |-> TRUE, history |-> h2, nextQ |-> nQ]
                      ELSE WorklistDrain(gr, h2, Tail(aQ) \o c.value,
                                         nQ, n, tok)

\* The positions n.. of the worklist build over the tokens w.
RECURSIVE WorklistPositions(_, _, _, _, _)
WorklistPositions(gr, w, hist, seed, n) ==
    IF n > Len(w)
    THEN [raised |-> FALSE, history |-> hist]
    ELSE LET d == WorklistDrain(gr, Append(hist, <<>>), seed, <<>>, n,
                                Append(w, None)[n + 1])
         IN  IF d.raised
             THEN [raised |-> TRUE, history |-> d.history]
             ELSE WorklistPositions(gr, w, d.history, d.nextQ, n + 1)

WorklistChart(gr, st, w) ==
    WorklistPositions(gr, w, <<>>,
                      [k \in 1..Len(gr[st]) |-> <<st, gr[st][k], 0, 0>>], 0)

\* C19: for a grammar without empty productions the build ends as the
\* worklist that expands an item only once ends: when chart returns, the
\* worklist returns a chart with the same items in the same order in every
\* StateSet; when completer raises, it raises in the worklist too, with
\* the same StateSets built so far.
C19_SameAsExpandOnce ==
    (/\ pc = "done" \/ (pc = "error" /\ err = "IndexError")
     /\ NoEmptyProductions(grammar))
    => LET wl == WorklistChart(grammar, start, inp)
       IN  /\ wl.raised = (pc = "error")
           /\ wl.history = history

\* A chart has been returned by a build whose last pop was of an item that
\* was in the StateSet already, and so was expanded a second time.
C19_Witness ==
    /\ pc = "done"
    /\ wasSeen
    /\ NoEmptyProductions(grammar)
    /\ Len(inp) >= 1

====
